---- MODULE Spec2Model ----
(***************************************************************************)
(* A model of ohmysportsfeedspy: the v1.x API client (v1_0.py, v1_1.py,    *)
(* v1_2.py) and the local-filesystem data store with its format codec      *)
(* (stores.py).                                                            *)
(*                                                                         *)
(* Text is a sequence of one-character strings, so that splitting,         *)
(* quoting and repr() are computed character by character.  A Python value *)
(* is a pair <<type name, content>>.                                       *)
(***************************************************************************)
EXTENDS Integers, Sequences, FiniteSets, TLC

\* Number of get_data / data-store calls a behaviour may make.
MaxCalls == 2

-----------------------------------------------------------------------------
(* Python values *)

PyNone == <<"None", <<>>>>
PyStr(cs) == <<"str", cs>>
PyBytes(cs) == <<"bytes", cs>>
PyList(xs) == <<"list", xs>>
PyInt(ds) == <<"int", ds>>
TypeOf(x) == x[1]
ValOf(x) == x[2]

\* The value of a local variable or attribute that was never assigned.
Unbound == <<"unbound", <<>>>>

\* The result of a call: a returned value, or a raised exception.
Ok(val) == [ok |-> TRUE, val |-> val, err |-> ""]
Raise(e) == [ok |-> FALSE, val |-> Unbound, err |-> e]
OkS(s) == [ok |-> TRUE, val |-> s, err |-> ""]
RaiseS(e) == [ok |-> FALSE, val |-> "", err |-> e]

-----------------------------------------------------------------------------
(* Text helpers *)

Has(cs, c) == \E i \in 1..Len(cs) : cs[i] = c

RECURSIVE Flatten(_)
Flatten(ss) == IF ss = <<>> THEN <<>> ELSE Head(ss) \o Flatten(Tail(ss))

RECURSIVE JoinWith(_, _)
JoinWith(ss, sep) ==
    IF ss = <<>> THEN <<>>
    ELSE IF Len(ss) = 1 THEN Head(ss)
    ELSE Head(ss) \o sep \o JoinWith(Tail(ss), sep)

\* bytes.splitlines() / str.splitlines(): lines without their terminators;
\* "\n", "\r" and "\r\n" each end a line, and no empty last line is added.
RECURSIVE SplitScan(_, _, _, _)
SplitScan(cs, i, cur, acc) ==
    IF i > Len(cs) THEN (IF cur = <<>> THEN acc ELSE Append(acc, cur))
    ELSE IF cs[i] = "\r" /\ i < Len(cs) /\ cs[i + 1] = "\n"
         THEN SplitScan(cs, i + 2, <<>>, Append(acc, cur))
    ELSE IF cs[i] = "\n" \/ cs[i] = "\r"
         THEN SplitScan(cs, i + 1, <<>>, Append(acc, cur))
    ELSE SplitScan(cs, i + 1, Append(cur, cs[i]), acc)

splitlines(cs) == SplitScan(cs, 1, <<>>, <<>>)

\* Reading a file opened in text mode with the default newline=None:
\* "\r\n" and "\r" are both translated to "\n".
RECURSIVE TranslateNewlines(_)
TranslateNewlines(cs) ==
    IF cs = <<>> THEN <<>>
    ELSE IF Head(cs) = "\r" /\ Len(cs) > 1 /\ cs[2] = "\n"
         THEN <<"\n">> \o TranslateNewlines(Tail(Tail(cs)))
    ELSE IF Head(cs) = "\r" THEN <<"\n">> \o TranslateNewlines(Tail(cs))
    ELSE <<Head(cs)>> \o TranslateNewlines(Tail(cs))

\* The body of a str/bytes repr between its quotes, for the quote q chosen.
RECURSIVE ReprEscape(_, _)
ReprEscape(cs, q) ==
    IF cs = <<>> THEN <<>>
    ELSE (CASE Head(cs) = "\n" -> <<"\\", "n">>
            [] Head(cs) = "\r" -> <<"\\", "r">>
            [] Head(cs) = "\\" -> <<"\\", "\\">>
            [] Head(cs) = q    -> <<"\\", q>>
            [] OTHER           -> <<Head(cs)>>) \o ReprEscape(Tail(cs), q)

\* Python picks double quotes when the text holds ' and no ".
ReprQuoted(cs) ==
    LET q == IF Has(cs, "'") /\ ~Has(cs, "\"") THEN "\"" ELSE "'"
    IN  <<q>> \o ReprEscape(cs, q) \o <<q>>

\* str(x) for x of type bytes: the repr, b'...'.
BytesRepr(cs) == <<"b">> \o ReprQuoted(cs)

\* repr(x), which is also str(x) for a value that is not a string: what
\* csv.writer writes for such a field.
RECURSIVE PyRepr(_)
PyRepr(x) ==
    CASE TypeOf(x) = "str"   -> ReprQuoted(ValOf(x))
      [] TypeOf(x) = "bytes" -> BytesRepr(ValOf(x))
      [] TypeOf(x) = "int"   -> ValOf(x)
      [] TypeOf(x) = "list"  ->
            <<"[">> \o JoinWith([i \in 1..Len(ValOf(x)) |-> PyRepr(ValOf(x)[i])], <<",", " ">>)
                    \o <<"]">>
      [] OTHER         -> <<"N", "o", "n", "e">>

-----------------------------------------------------------------------------
(* json *)

One == PyInt(<<"1">>)

\* The JSON documents of the model: the number 1 and short lists of it.
JsonUniverse ==
    {One, PyList(<<>>), PyList(<<One>>), PyList(<<One, One>>), PyList(<<PyList(<<One>>)>>)}

RECURSIVE JsonText(_, _)
JsonText(x, sep) ==
    IF TypeOf(x) = "int" THEN ValOf(x)
    ELSE <<"[">> \o JoinWith([i \in 1..Len(ValOf(x)) |-> JsonText(ValOf(x)[i], sep)], sep) \o <<"]">>

\* json.dump(data, stream) of a document of JsonUniverse: the default
\* separators are ", " and ": ".
JsonDump(x) == Ok(JsonText(x, <<",", " ">>))

IsJsonSpace(c) == c \in {" ", "\n", "\r", "\t"}

\* json.loads / json.load / response.json(): the document the text denotes
\* (whitespace between tokens is insignificant), ValueError
\* (json.JSONDecodeError) when it denotes none.
JsonLoads(cs) ==
    LET tokens == SelectSeq(cs, LAMBDA c : ~IsJsonSpace(c))
        docs == {x \in JsonUniverse : JsonText(x, <<",">>) = tokens}
    IN  IF docs = {} THEN Raise("ValueError") ELSE Ok(CHOOSE x \in docs : TRUE)

-----------------------------------------------------------------------------
(* csv *)

\* One line through csv.reader's state machine (default dialect): st is
\* "start" (START_FIELD), "plain" (IN_FIELD), "quoted" (IN_QUOTED_FIELD) or
\* "qq" (QUOTE_IN_QUOTED_FIELD).  The lines of the model hold no line break
\* inside a quoted field.
RECURSIVE CsvScan(_, _, _, _, _)
CsvScan(line, i, st, cur, acc) ==
    IF i > Len(line) THEN Append(acc, PyStr(cur))
    ELSE LET c == line[i] IN
         CASE st = "start" /\ c = "\"" -> CsvScan(line, i + 1, "quoted", cur, acc)
           [] st = "start" /\ c = ","  -> CsvScan(line, i + 1, "start", <<>>, Append(acc, PyStr(cur)))
           [] st = "start" /\ c \notin {"\"", ","} -> CsvScan(line, i + 1, "plain", Append(cur, c), acc)
           [] st = "plain" /\ c = ","  -> CsvScan(line, i + 1, "start", <<>>, Append(acc, PyStr(cur)))
           [] st = "plain" /\ c # ","  -> CsvScan(line, i + 1, "plain", Append(cur, c), acc)
           [] st = "quoted" /\ c = "\"" -> CsvScan(line, i + 1, "qq", cur, acc)
           [] st = "quoted" /\ c # "\"" -> CsvScan(line, i + 1, "quoted", Append(cur, c), acc)
           [] st = "qq" /\ c = "\""    -> CsvScan(line, i + 1, "quoted", Append(cur, c), acc)
           [] st = "qq" /\ c = ","     -> CsvScan(line, i + 1, "start", <<>>, Append(acc, PyStr(cur)))
           [] OTHER                    -> CsvScan(line, i + 1, "plain", Append(cur, c), acc)

\* list(csv.reader(lines)): one row per line, an empty line gives an empty row.
CsvReader(lines) ==
    PyList([i \in 1..Len(lines) |->
                PyList(IF lines[i] = <<>> THEN <<>> ELSE CsvScan(lines[i], 1, "start", <<>>, <<>>))])

RECURSIVE DoubleQuotes(_)
DoubleQuotes(cs) ==
    IF cs = <<>> THEN <<>>
    ELSE (IF Head(cs) = "\"" THEN <<"\"", "\"">> ELSE <<Head(cs)>>) \o DoubleQuotes(Tail(cs))

\* csv.writer(stream).writerow([field]): QUOTE_MINIMAL, line terminator "\r\n";
\* a field that is not a string is written as str(field), a lone empty field
\* is written as "".
writerow1(field) ==
    LET cs == IF TypeOf(field) = "str" THEN ValOf(field) ELSE PyRepr(field)
        quote == cs = <<>> \/ \E c \in {",", "\"", "\r", "\n"} : Has(cs, c)
    IN  (IF quote THEN <<"\"">> \o DoubleQuotes(cs) \o <<"\"">> ELSE cs) \o <<"\r", "\n">>

-----------------------------------------------------------------------------
(* stores.py: the format codec *)

\* _load_data(data_format, input_stream), the stream's text as read().
_load_data(data_format, text) ==
    CASE data_format = "json" -> JsonLoads(text)
      [] data_format = "xml"  -> Ok(PyStr(text))
      [] data_format = "csv"  -> Ok(CsvReader(splitlines(text)))
      [] OTHER                -> Raise("AssertionError")

\* _write_data(data, data_format, output_stream): the text written.
_write_data(data, data_format) ==
    CASE data_format = "json" -> JsonDump(data)
      [] data_format = "xml"  ->
            IF TypeOf(data) = "str" THEN Ok(ValOf(data)) ELSE Raise("TypeError")
      [] data_format = "csv"  ->
            IF TypeOf(data) = "list"
            THEN Ok(Flatten([i \in 1..Len(ValOf(data)) |-> writerow1(ValOf(data)[i])]))
            ELSE Raise("TypeError")
      [] OTHER                -> Raise("AssertionError")

-----------------------------------------------------------------------------
(* stores.py: DataStore.resolve_filename *)

\* str.lower() on the league names of the model.
lower(s) == CASE s = "NBA" -> "nba" [] s = "Nhl" -> "nhl" [] OTHER -> s

resolve_filename(league, season, feed, data_format, params) ==
    LET base == feed \o "-" \o lower(league) \o "-" \o season
        withGame == IF "gameid" \in DOMAIN params
                    THEN base \o "-" \o params["gameid"] ELSE base
    IN  IF "data" \in DOMAIN params
        THEN IF "date" \in DOMAIN params
             THEN OkS(withGame \o "-" \o params["date"] \o "." \o data_format)
             ELSE RaiseS("KeyError")
        ELSE IF "fordate" \in DOMAIN params
             THEN OkS(withGame \o "-" \o params["fordate"] \o "." \o data_format)
             ELSE OkS(withGame \o "." \o data_format)

-----------------------------------------------------------------------------
(* stores.py: FileStore.  A store is [init, dir, files, mkdirs]: the       *)
(* handle's _initialized flag, whether the directory exists, the           *)
(* directory's files (file name -> text), and the number of mkdir calls    *)
(* the handle has made.                                                    *)

_initialize_store(fs) ==
    IF ~fs.init
    THEN IF ~fs.dir THEN [fs EXCEPT !.dir = TRUE, !.mkdirs = @ + 1, !.init = TRUE]
         ELSE [fs EXCEPT !.init = TRUE]
    ELSE fs

PyBool(b) == <<"bool", b>>
PyPath(name) == <<"Path", name>>

\* FileStore.exists: [fs |-> the store afterwards, r |-> the call's result].
FileStore_exists(fs, league, season, feed, data_format, params) ==
    LET fs1 == _initialize_store(fs)
        filename == resolve_filename(league, season, feed, data_format, params)
    IN  IF ~filename.ok THEN [fs |-> fs1, r |-> Raise(filename.err)]
        ELSE [fs |-> fs1, r |-> Ok(PyBool(filename.val \in DOMAIN fs1.files))]

FileStore_load(fs, league, season, feed, data_format, params) ==
    LET fs1 == _initialize_store(fs)
        filename == resolve_filename(league, season, feed, data_format, params)
    IN  IF ~filename.ok THEN [fs |-> fs1, r |-> Raise(filename.err)]
        ELSE IF filename.val \in DOMAIN fs1.files
             THEN [fs |-> fs1,
                   r |-> _load_data(data_format, TranslateNewlines(fs1.files[filename.val]))]
             ELSE [fs |-> fs1, r |-> Ok(PyNone)]

\* The filesystem faults a store can meet: none, open() fails, or the write
\* fails after open("w+") has created and truncated the file.
Faults == {"none", "open", "write"}

\* A write that appends to the file instead of truncating it.
WriteFile_appending(fs, name, text) ==
    [fs EXCEPT !.files = [n \in DOMAIN fs.files \cup {name} |->
                              IF n = name
                              THEN (IF n \in DOMAIN fs.files THEN fs.files[n] ELSE <<>>) \o text
                              ELSE fs.files[n]]]

\* file_path.open("w+") truncates the file; the text written replaces it.
WriteFile(fs, name, text) ==
    [fs EXCEPT !.files = [n \in DOMAIN fs.files \cup {name} |->
                              IF n = name THEN text ELSE fs.files[n]]]

FileStore_store(fs, data, league, season, feed, data_format, params, fault) ==
    LET fs1 == _initialize_store(fs)
        filename == resolve_filename(league, season, feed, data_format, params)
        written == _write_data(data, data_format)
    IN  IF ~filename.ok THEN [fs |-> fs1, r |-> Raise(filename.err)]
        ELSE IF fault = "open" THEN [fs |-> fs1, r |-> Raise("OSError")]
        ELSE IF ~written.ok
             THEN [fs |-> WriteFile(fs1, filename.val, <<>>), r |-> Raise(written.err)]
        ELSE IF fault = "write"
             THEN [fs |-> WriteFile(fs1, filename.val, <<>>), r |-> Raise("OSError")]
        ELSE [fs |-> WriteFile(fs1, filename.val, written.val),
              r |-> Ok(PyPath(filename.val))]

\* FileStore(directory), on a directory that does not exist yet.
NewFileStore == [init |-> FALSE, dir |-> FALSE, files |-> [n \in {} |-> <<>>], mkdirs |-> 0]

-----------------------------------------------------------------------------
(* stores.py: S3Store.  A store is [init, prefix, objects, bucket_loads]:  *)
(* the handle's _initialized flag, its key prefix, the bucket's objects    *)
(* (key -> text) and the number of bucket.load() calls the handle has made.*)

NoPrefix == "<None>"

\* S3Store(bucket_name, prefix).
NewS3Store(prefix) ==
    [init |-> FALSE, prefix |-> prefix, objects |-> [k \in {} |-> <<>>], bucket_loads |-> 0]

\* The ClientError an S3 request can meet: none, or an error response with
\* this code.  A request for a key the bucket does not hold meets 404.
S3Faults == {"none", "500"}

\* What "with <bytes> as ..." raises: AttributeError (__enter__) before
\* Python 3.11, TypeError since.
WithErrors == {"AttributeError", "TypeError"}

\* An initialization that verifies the bucket on every call.
S3Store_initialize_every_time(s3, bucket_fault) ==
    IF bucket_fault
    THEN [s3 |-> [s3 EXCEPT !.bucket_loads = @ + 1], r |-> Raise("ClientError")]
    ELSE [s3 |-> [s3 EXCEPT !.bucket_loads = @ + 1, !.init = TRUE], r |-> Ok(PyNone)]

\* S3Store._initialize_store; bucket_fault: bucket.load() raises ClientError.
S3Store_initialize_store(s3, bucket_fault) ==
    IF ~s3.init
    THEN IF bucket_fault
         THEN [s3 |-> [s3 EXCEPT !.bucket_loads = @ + 1], r |-> Raise("ClientError")]
         ELSE [s3 |-> [s3 EXCEPT !.bucket_loads = @ + 1, !.init = TRUE], r |-> Ok(PyNone)]
    ELSE [s3 |-> s3, r |-> Ok(PyNone)]

_get_object_key(prefix, league, season, feed, data_format, params) ==
    LET filename == resolve_filename(league, season, feed, data_format, params)
    IN  IF ~filename.ok THEN filename
        ELSE IF prefix = NoPrefix THEN filename
        ELSE OkS(prefix \o "/" \o filename.val)

\* An exists that lets the ClientError of a failed request through.
S3Store_exists_raising(s3, league, season, feed, data_format, params, bucket_fault, fault) ==
    LET i == S3Store_initialize_store(s3, bucket_fault)
        object_key == _get_object_key(s3.prefix, league, season, feed, data_format, params)
    IN  IF ~i.r.ok THEN i
        ELSE IF ~object_key.ok THEN [s3 |-> i.s3, r |-> Raise(object_key.err)]
        ELSE IF fault # "none" THEN [s3 |-> i.s3, r |-> Raise("ClientError")]
        ELSE [s3 |-> i.s3, r |-> Ok(PyBool(object_key.val \in DOMAIN i.s3.objects))]

\* S3Store.exists: Object(key).load() raises ClientError 404 for a key the
\* bucket does not hold; every ClientError gives False.
S3Store_exists(s3, league, season, feed, data_format, params, bucket_fault, fault) ==
    LET i == S3Store_initialize_store(s3, bucket_fault)
        object_key == _get_object_key(s3.prefix, league, season, feed, data_format, params)
        code == IF fault # "none" THEN fault
                ELSE IF object_key.val \notin DOMAIN i.s3.objects THEN "404" ELSE ""
    IN  IF ~i.r.ok THEN i
        ELSE IF ~object_key.ok THEN [s3 |-> i.s3, r |-> Raise(object_key.err)]
        ELSE IF code = "404" THEN [s3 |-> i.s3, r |-> Ok(PyBool(FALSE))]
        ELSE IF code # "" THEN [s3 |-> i.s3, r |-> Ok(PyBool(FALSE))]
        ELSE [s3 |-> i.s3, r |-> Ok(PyBool(TRUE))]

\* S3Store.load: get() raises ClientError for a missing key or a failed
\* request, and None is returned; when get() succeeds, Body.read() is a bytes
\* object, and using it as a context manager raises with_error.
S3Store_load(s3, league, season, feed, data_format, params, bucket_fault, fault, with_error) ==
    LET i == S3Store_initialize_store(s3, bucket_fault)
        object_key == _get_object_key(s3.prefix, league, season, feed, data_format, params)
    IN  IF ~i.r.ok THEN i
        ELSE IF ~object_key.ok THEN [s3 |-> i.s3, r |-> Raise(object_key.err)]
        ELSE IF fault # "none" \/ object_key.val \notin DOMAIN i.s3.objects
             THEN [s3 |-> i.s3, r |-> Ok(PyNone)]
        ELSE [s3 |-> i.s3, r |-> Raise(with_error)]

\* S3Store.store: the data is written to a temporary file, which is
\* uploaded; upload_fileobj returns None, and a ClientError gives None too.
S3Store_store(s3, data, league, season, feed, data_format, params, bucket_fault, fault) ==
    LET i == S3Store_initialize_store(s3, bucket_fault)
        object_key == _get_object_key(s3.prefix, league, season, feed, data_format, params)
        written == _write_data(data, data_format)
    IN  IF ~i.r.ok THEN i
        ELSE IF ~object_key.ok THEN [s3 |-> i.s3, r |-> Raise(object_key.err)]
        ELSE IF ~written.ok THEN [s3 |-> i.s3, r |-> Raise(written.err)]
        ELSE IF fault # "none" THEN [s3 |-> i.s3, r |-> Ok(PyNone)]
        ELSE [s3 |-> [i.s3 EXCEPT !.objects =
                         [k \in DOMAIN i.s3.objects \cup {object_key.val} |->
                             IF k = object_key.val THEN written.val ELSE i.s3.objects[k]]],
              r |-> Ok(PyNone)]

-----------------------------------------------------------------------------
(* v1_0.py, v1_1.py, v1_2.py: the API client *)

valid_feeds ==
    {"cumulative_player_stats", "full_game_schedule", "daily_game_schedule",
     "daily_player_stats", "game_boxscore", "scoreboard", "game_playbyplay",
     "player_gamelogs", "team_gamelogs", "roster_players", "game_startinglineup",
     "active_players", "overall_team_standings", "conference_team_standings",
     "division_team_standings", "playoff_team_standings", "player_injuries",
     "daily_dfs", "current_season", "latest_updates"}

\* A verification that accepts every feed name.
verify_feed_accepts_all(feedName) == TRUE

__verify_feed(feedName) == \E feed \in valid_feeds : feed = feedName

__verify_format(format) == ~(format # "json" /\ format # "xml" /\ format # "csv")

\* self.base_url as the constructor of each version leaves it.
base_url(version) ==
    CASE version = "1.0" -> "https://api.mysportsfeeds.com/v1.0/pull"
      [] version = "1.1" -> "https://api.mysportsfeeds.com/v1.1/pull"
      [] version = "1.2" -> "https://api.mysportsfeeds.com/v1.2/pull"

\* A URL that always carries the season segment.
determine_url_with_season(base, league, season, feed, output_format, params) ==
    base \o "/" \o league \o "/" \o season \o "/" \o feed \o "." \o output_format

determine_url(base, league, season, feed, output_format, params) ==
    IF feed = "current_season"
    THEN base \o "/" \o league \o "/" \o feed \o "." \o output_format
    ELSE base \o "/" \o league \o "/" \o season \o "/" \o feed \o "." \o output_format

\* API_v1_0.__init__: self.data_store after construction.  The attribute is
\* assigned only on the legacy store_type == "file" path with no data_store
\* argument; otherwise it is never assigned ("unset").
init_data_store(data_store_arg, store_type) ==
    IF data_store_arg = "None" /\ store_type = "file" THEN "FileStore" ELSE "unset"

\* What get_data does with a response: r is the outcome, fs the store
\* afterwards, ops the number of data-store operations made, store_err the
\* exception data_store.store raised ("" when none), stored the value handed
\* to data_store.store, err_status the status code the exception carries.
Step(r, fs, ops, store_err, stored) ==
    [r |-> r, fs |-> fs, ops |-> ops, store_err |-> store_err, stored |-> stored,
     err_status |-> 0]

\* A __save_feed that catches what data_store.store raises.
save_feed_swallowing(ds, fs, body, league, season, feed, output_format, params, fault) ==
    LET store_output ==
            CASE output_format = "json" -> JsonLoads(body)
              [] output_format = "xml"  -> Ok(PyStr(body))
              [] output_format = "csv"  -> Ok(CsvReader(splitlines(body)))
              [] OTHER                  -> Raise("UnboundLocalError")
        st == FileStore_store(fs, store_output.val, league, season, feed,
                              output_format, params, fault)
    IN  IF ~store_output.ok THEN Step(Raise(store_output.err), fs, 0, "", Unbound)
        ELSE Step(Ok(PyNone), st.fs, 1, st.r.err, store_output.val)

__save_feed(ds, fs, body, league, season, feed, output_format, params, fault) ==
    LET store_output ==
            CASE output_format = "json" -> JsonLoads(body)
              [] output_format = "xml"  -> Ok(PyStr(body))
              [] output_format = "csv"  -> Ok(CsvReader(splitlines(body)))
              [] OTHER                  -> Raise("UnboundLocalError")
        st == FileStore_store(fs, store_output.val, league, season, feed,
                              output_format, params, fault)
    IN  IF ~store_output.ok THEN Step(Raise(store_output.err), fs, 0, "", Unbound)
        ELSE IF ds # "None"
             THEN Step(IF st.r.ok THEN Ok(PyNone) ELSE Raise(st.r.err),
                       st.fs, 1, st.r.err, store_output.val)
             ELSE Step(Ok(PyNone), fs, 0, "", Unbound)

\* get_data, lines 159-164: the value returned for a 200 response.
decode_response(output_format, body) ==
    IF output_format = "json" THEN JsonLoads(body)
    ELSE IF output_format = "xml" THEN Ok(PyStr(BytesRepr(body)))
    ELSE Ok(PyList([i \in 1..Len(splitlines(body)) |-> PyBytes(splitlines(body)[i])]))

\* get_data, lines 155-164: a 200 response.
on_200(ds, fs, body, league, season, feed, output_format, params, fault) ==
    LET saved == __save_feed(ds, fs, body, league, season, feed, output_format,
                             params, fault)
        data == decode_response(output_format, body)
    IN  IF ds = "unset" THEN Step(Raise("AttributeError"), fs, 0, "", Unbound)
        ELSE IF ds # "None" /\ ~saved.r.ok THEN saved
        ELSE IF ds # "None" THEN [saved EXCEPT !.r = data]
        ELSE Step(data, fs, 0, "", Unbound)

\* get_data, lines 166-173: a 304 response.  When exists() is false nothing is
\* assigned to data, and line 178 raises UnboundLocalError.
on_304(ds, fs, league, season, feed, output_format, params) ==
    LET ex == FileStore_exists(fs, league, season, feed, output_format, params)
        ld == FileStore_load(ex.fs, league, season, feed, output_format, params)
    IN  IF ds = "unset" THEN Step(Raise("AttributeError"), fs, 0, "", Unbound)
        ELSE IF ~ex.r.ok THEN Step(ex.r, ex.fs, 1, "", Unbound)
        ELSE IF ex.r.val = PyBool(TRUE) THEN Step(ld.r, ld.fs, 2, "", Unbound)
        ELSE Step(Raise("UnboundLocalError"), ex.fs, 1, "", Unbound)

\* A response handling that takes every status but 200 for "not modified".
on_response_lenient(ds, fs, status, body, league, season, feed, output_format, params, fault) ==
    IF status = 200
    THEN on_200(ds, fs, body, league, season, feed, output_format, params, fault)
    ELSE on_304(ds, fs, league, season, feed, output_format, params)

\* get_data, lines 155-178: the response interpreted.
on_response(ds, fs, status, body, league, season, feed, output_format, params, fault) ==
    IF status = 200
    THEN on_200(ds, fs, body, league, season, feed, output_format, params, fault)
    ELSE IF status = 304
    THEN on_304(ds, fs, league, season, feed, output_format, params)
    ELSE [Step(Raise("Warning"), fs, 0, "", Unbound) EXCEPT !.err_status = status]

Absent == "<absent>"
NoParams == [k \in {} |-> ""]
NotAuthenticated == "You must authenticate() before making requests."

\* Parameters that always carry force=false.
request_params_forcing(kw) ==
    LET p0 == IF kw.season # Absent /\ kw.feed = "players"
              THEN ("season" :> kw.season) @@ kw.params ELSE kw.params
    IN  ("force" :> "false") @@ p0

\* The parameters get_data sends: the extra keyword arguments, the season
\* when the feed is 'players', and force=false unless force was given.
request_params(kw) ==
    LET p0 == IF kw.season # Absent /\ kw.feed = "players"
              THEN ("season" :> kw.season) @@ kw.params ELSE kw.params
    IN  IF "force" \notin DOMAIN p0 THEN p0 @@ ("force" :> "false") ELSE p0

\* get_data, lines 107-151: everything before the request is sent.  Either an
\* exception (err, with its message msg), or the request to send.
Refuse(err, msg) ==
    [ok |-> FALSE, err |-> err, msg |-> msg, league |-> "", season |-> "", feed |-> "",
     output_format |-> "", params |-> NoParams, url |-> ""]

\* "not self.auth": reading the attribute raises AttributeError while it was
\* never assigned; an assigned (username, password) tuple is never falsy.
before_request(version, auth_, kw) ==
    LET league == kw.league
        feed == IF kw.feed = Absent THEN "" ELSE kw.feed
        season == IF kw.season = Absent \/ kw.feed = "players" THEN "" ELSE kw.season
        output_format == kw.format
        params == request_params(kw)
    IN  IF auth_ = Unbound THEN Refuse("AttributeError", "no attribute 'auth'")
        ELSE IF auth_ = PyNone THEN Refuse("AssertionError", NotAuthenticated)
        ELSE IF kw.season # Absent /\ kw.feed = Absent THEN Refuse("KeyError", "'feed'")
        ELSE IF ~__verify_feed(feed) THEN Refuse("ValueError", "Unknown feed")
        ELSE IF ~__verify_format(output_format)
        THEN Refuse("ValueError", "Unsupported format")
        ELSE [ok |-> TRUE, err |-> "", msg |-> "", league |-> league, season |-> season,
              feed |-> feed, output_format |-> output_format, params |-> params,
              url |-> determine_url(base_url(version), league, season, feed,
                                    output_format, params)]

\* set_auth_credentials: self.auth = (username, password).
set_auth_credentials(username, password) == <<"tuple", <<username, password>>>>

-----------------------------------------------------------------------------
(* MySportsFeeds_API.py: the facade *)

\* validate_data_store: the legacy store_type "file" gives a FileStore,
\* whatever data_store is; any other store_type but None is refused.
validate_data_store(data_store_arg, store_type) ==
    IF store_type # "None"
    THEN IF store_type = "file" THEN OkS("FileStore") ELSE RaiseS("ValueError")
    ELSE OkS(data_store_arg)

\* The later protocol family (v2_0.py, v2_1.py) authenticates with an API
\* key instead of basic authentication.
v2_supports_basic_auth(version) == FALSE

\* api_instance.supports_basic_auth(): True in API_v1_0, which API_v1_1 and
\* API_v1_2 inherit.
supports_basic_auth(version) ==
    IF version \in {"1.0", "1.1", "1.2"} THEN TRUE ELSE v2_supports_basic_auth(version)

BasicAuthNotSupported == "BASIC authentication not supported for version "

\* An authenticate that does not ask whether the version supports basic
\* authentication.
authenticate_unchecked(version, auth_, apikey, password) ==
    [auth |-> set_auth_credentials(apikey, password), r |-> Ok(PyNone), msg |-> ""]

\* MySportsFeeds.authenticate: the client's auth afterwards (it stands for
\* self.auth and the Authorization header, which set_auth_credentials
\* assigns together) and the call's result.
authenticate(version, auth_, apikey, password) ==
    IF ~supports_basic_auth(version)
    THEN [auth |-> auth_, r |-> Raise("ValueError"),
          msg |-> BasicAuthNotSupported \o version]
    ELSE [auth |-> set_auth_credentials(apikey, password), r |-> Ok(PyNone), msg |-> ""]

-----------------------------------------------------------------------------
(* The inputs of the model *)

\* The versions the facade accepts, and its constructor calls.
FacadeVersions == {"1.0", "1.1", "1.2", "2.0", "2.1"}

FacadeCtors ==
    [version : FacadeVersions, data_store : {"None", "FileStore"},
     store_type : {"None", "file"}]

ApiKeys == {"key1", "key2", "key3"}
Passwords == {"pw1", "pw2", "pw3"}

Versions == {"1.0", "1.1", "1.2"}

\* The constructor calls: only API_v1_0.__init__ takes store_type.
Ctors ==
    {c \in [version : Versions, data_store : {"None", "FileStore"},
            store_type : {"None", "file"}] :
        c.store_type = "file" => c.version = "1.0"}

Leagues == {"NBA"}
Seasons == {"2016"}
Feeds == {"full_game_schedule", "players", Absent}
Formats == {"json", "xml", "csv", "txt"}
ParamMaps ==
    {NoParams, "gameid" :> "7", "data" :> "x", "force" :> "true"}

Kwargs == [league : Leagues, season : Seasons, feed : Feeds, format : Formats,
           params : ParamMaps]

\* The requests made of the FileStore directly, and the payloads stored.
StoreRequests ==
    [league : Leagues, season : Seasons, feed : {"full_game_schedule"},
     format : {"json", "xml", "csv"}, params : {NoParams, "gameid" :> "7"}]

\* The requests resolve_filename is applied to on its own.
ResolveRequests ==
    [league : {"nba", "NBA"}, season : Seasons,
     feed : {"full_game_schedule", "players"}, format : {"json", "txt"},
     params : {NoParams, "gameid" :> "7", "fordate" :> "20170101",
               ("gameid" :> "7") @@ ("fordate" :> "20170101"),
               "data" :> "x", ("data" :> "x") @@ ("date" :> "20170102"),
               "date" :> "20170102", "player" :> "curry", "force" :> "false",
               ("player" :> "curry") @@ ("force" :> "false"),
               ("gameid" :> "7") @@ ("team" :> "bos"),
               ("fordate" :> "20170101") @@ ("team" :> "bos")}]

\* The requests determine_url is applied to on its own.
UrlRequests ==
    [league : {"nba", "nhl"}, season : {"2016", "latest"},
     feed : {"current_season", "full_game_schedule", "daily_dfs"},
     format : {"json", "xml", "csv"}, params : {NoParams, "force" :> "false"}]

Statuses == {200, 304, 404, 500}

BodyJson == <<"[", "1", ",", "1", "]">>
BodyRows == <<"a", ",", "b", "\n", "c">>
Bodies == {BodyJson, BodyRows}

\* A text whose lines end in "\r\n".
TextCRLF == <<"a", "\r", "\n", "b">>

PayloadsFor(format) ==
    CASE format = "json" -> {PyList(<<One, One>>)}
      [] format = "xml"  -> {PyStr(BodyRows), PyStr(TextCRLF)}
      [] format = "csv"  -> {CsvReader(splitlines(BodyRows))}
      [] OTHER           -> {PyNone}

-----------------------------------------------------------------------------
(* The state machine *)

VARIABLES
    ctor,        \* the arguments the client was constructed with
    data_store,  \* the client's data_store attribute
    auth,        \* the client's auth attribute
    fs,          \* the FileStore: [init, dir, files, mkdirs]
    s3,          \* the S3Store: [init, prefix, objects, bucket_loads]
    call,        \* the last call made and its outcome
    fetched,     \* streak: the number of successive get_data calls, the last
                 \* one included, that got a 200 response, returned and stored
                 \* under the last call's key; replaced: the payload the one
                 \* before the last had stored
    ncalls       \* the number of calls made

vars == <<ctor, data_store, auth, fs, s3, call, fetched, ncalls>>

NoCall ==
    [op |-> "none", req |-> [league |-> "", season |-> "", feed |-> "", format |-> "",
                             params |-> NoParams],
     status |-> 0, body |-> <<>>, fault |-> "none",
     ok |-> TRUE, err |-> "", msg |-> "", data |-> Unbound,
     gets |-> 0, url |-> "", query |-> NoParams, err_status |-> 0,
     ops |-> 0, store_err |-> "", stored |-> Unbound, filename |-> "",
     bucket_fault |-> FALSE, credentials |-> <<>>]

\* No get_data call that stored a 200 response has just been made.
NoFetch == [streak |-> 0, replaced |-> Unbound]

\* The call before this one was a get_data call that got a 200 response,
\* returned, and stored under the key of the request kw.
FollowsStoredFetch(kw) ==
    /\ call.op = "get_data" /\ fetched.streak > 0
    /\ resolve_filename(call.req.league, call.req.season, call.req.feed, call.req.format,
                        request_params(call.req))
         = resolve_filename(kw.league, kw.season, kw.feed, kw.format, request_params(kw))

Init ==
    /\ ctor \in Ctors
    /\ data_store = init_data_store(ctor.data_store, ctor.store_type)
    /\ auth = Unbound
    /\ fs = NewFileStore
    /\ s3 = NewS3Store(NoPrefix)
    /\ call = NoCall
    /\ fetched = NoFetch
    /\ ncalls = 0

SetAuth ==
    /\ auth' = set_auth_credentials("apikey", "secret")
    /\ call' = [NoCall EXCEPT !.op = "set_auth_credentials"]
    /\ fetched' = NoFetch
    /\ UNCHANGED <<ctor, data_store, fs, s3, ncalls>>

\* One get_data call.  The response (and the filesystem fault a store meets)
\* is drawn only when the call gets as far as sending the request.
GetData ==
    /\ ncalls < MaxCalls
    /\ \E kw \in Kwargs :
          LET req == before_request(ctor.version, auth, kw)
              rec == [NoCall EXCEPT !.op = "get_data", !.req = kw]
          IN  IF ~req.ok
              THEN /\ call' = [rec EXCEPT !.ok = FALSE, !.err = req.err, !.msg = req.msg]
                   /\ fs' = fs
              ELSE \E status \in Statuses :
                   \E body \in (IF status = 200 THEN Bodies ELSE {<<>>}),
                      fault \in (IF status = 200 /\ data_store # "unset"
                                 THEN Faults ELSE {"none"}) :
                      LET res == on_response(data_store, fs, status, body, req.league,
                                             req.season, req.feed, req.output_format,
                                             req.params, fault)
                      IN  /\ fs' = res.fs
                          /\ call' = [rec EXCEPT
                                        !.status = status, !.body = body, !.fault = fault,
                                        !.ok = res.r.ok, !.err = res.r.err,
                                        !.data = res.r.val, !.gets = 1,
                                        !.url = req.url, !.query = req.params,
                                        !.err_status = res.err_status,
                                        !.ops = res.ops, !.store_err = res.store_err,
                                        !.stored = res.stored]
    /\ fetched' = IF call'.status = 200 /\ call'.ok /\ call'.ops = 1
                  THEN IF FollowsStoredFetch(call'.req)
                       THEN [streak |-> fetched.streak + 1, replaced |-> call.stored]
                       ELSE [streak |-> 1, replaced |-> Unbound]
                  ELSE NoFetch
    /\ ncalls' = ncalls + 1
    /\ UNCHANGED <<ctor, data_store, auth, s3>>

\* The caller uses the FileStore directly.
StoreOp ==
    /\ ncalls < MaxCalls
    /\ \E rq \in StoreRequests : \E data \in PayloadsFor(rq.format) :
          LET res == FileStore_store(fs, data, rq.league, rq.season, rq.feed, rq.format,
                                     rq.params, "none")
          IN  /\ fs' = res.fs
              /\ call' = [NoCall EXCEPT !.op = "store", !.req = rq, !.ok = res.r.ok,
                                        !.err = res.r.err, !.data = res.r.val, !.ops = 1,
                                        !.store_err = res.r.err, !.stored = data]
    /\ ncalls' = ncalls + 1
    /\ fetched' = NoFetch
    /\ UNCHANGED <<ctor, data_store, auth, s3>>

LoadOp ==
    /\ ncalls < MaxCalls
    /\ \E rq \in StoreRequests :
          LET res == FileStore_load(fs, rq.league, rq.season, rq.feed, rq.format, rq.params)
          IN  /\ fs' = res.fs
              /\ call' = [NoCall EXCEPT !.op = "load", !.req = rq, !.ok = res.r.ok,
                                        !.err = res.r.err, !.data = res.r.val, !.ops = 1]
    /\ ncalls' = ncalls + 1
    /\ fetched' = NoFetch
    /\ UNCHANGED <<ctor, data_store, auth, s3>>

ExistsOp ==
    /\ ncalls < MaxCalls
    /\ \E rq \in StoreRequests :
          LET res == FileStore_exists(fs, rq.league, rq.season, rq.feed, rq.format, rq.params)
          IN  /\ fs' = res.fs
              /\ call' = [NoCall EXCEPT !.op = "exists", !.req = rq, !.ok = res.r.ok,
                                        !.err = res.r.err, !.data = res.r.val, !.ops = 1]
    /\ ncalls' = ncalls + 1
    /\ fetched' = NoFetch
    /\ UNCHANGED <<ctor, data_store, auth, s3>>

\* resolve_filename applied to a request, on its own.
ResolveOp ==
    /\ \E rq \in ResolveRequests :
          LET res == resolve_filename(rq.league, rq.season, rq.feed, rq.format, rq.params)
          IN  call' = [NoCall EXCEPT !.op = "resolve_filename", !.req = rq, !.ok = res.ok,
                                     !.err = res.err, !.filename = res.val]
    /\ UNCHANGED <<ctor, data_store, auth, fs, s3, ncalls, fetched>>

\* The requests made of the S3Store.
S3Requests ==
    [league : Leagues, season : Seasons, feed : {"full_game_schedule"},
     format : {"json", "xml", "csv"}, params : {NoParams}]

Prefixes == {NoPrefix, "feeds"}

\* bucket.load() is called, and so can fail, only while the handle is not
\* initialized.
BucketFaults == IF s3.init THEN {FALSE} ELSE BOOLEAN

S3StoreOp ==
    /\ ncalls < MaxCalls
    /\ \E rq \in S3Requests : \E data \in PayloadsFor(rq.format) :
       \E bucket_fault \in BucketFaults, fault \in S3Faults :
          LET res == S3Store_store(s3, data, rq.league, rq.season, rq.feed, rq.format,
                                   rq.params, bucket_fault, fault)
          IN  /\ s3' = res.s3
              /\ call' = [NoCall EXCEPT !.op = "s3_store", !.req = rq, !.ok = res.r.ok,
                                        !.err = res.r.err, !.data = res.r.val, !.ops = 1,
                                        !.fault = fault, !.bucket_fault = bucket_fault,
                                        !.stored = data]
    /\ ncalls' = ncalls + 1
    /\ fetched' = NoFetch
    /\ UNCHANGED <<ctor, data_store, auth, fs>>

S3LoadOp ==
    /\ ncalls < MaxCalls
    /\ \E rq \in S3Requests, bucket_fault \in BucketFaults, fault \in S3Faults,
          with_error \in WithErrors :
          LET res == S3Store_load(s3, rq.league, rq.season, rq.feed, rq.format, rq.params,
                                  bucket_fault, fault, with_error)
          IN  /\ s3' = res.s3
              /\ call' = [NoCall EXCEPT !.op = "s3_load", !.req = rq, !.ok = res.r.ok,
                                        !.err = res.r.err, !.data = res.r.val, !.ops = 1,
                                        !.fault = fault, !.bucket_fault = bucket_fault]
    /\ ncalls' = ncalls + 1
    /\ fetched' = NoFetch
    /\ UNCHANGED <<ctor, data_store, auth, fs>>

S3ExistsOp ==
    /\ ncalls < MaxCalls
    /\ \E rq \in S3Requests, bucket_fault \in BucketFaults, fault \in S3Faults :
          LET res == S3Store_exists(s3, rq.league, rq.season, rq.feed, rq.format, rq.params,
                                    bucket_fault, fault)
          IN  /\ s3' = res.s3
              /\ call' = [NoCall EXCEPT !.op = "s3_exists", !.req = rq, !.ok = res.r.ok,
                                        !.err = res.r.err, !.data = res.r.val, !.ops = 1,
                                        !.fault = fault, !.bucket_fault = bucket_fault]
    /\ ncalls' = ncalls + 1
    /\ fetched' = NoFetch
    /\ UNCHANGED <<ctor, data_store, auth, fs>>

Next == SetAuth \/ GetData \/ StoreOp \/ LoadOp \/ ExistsOp

Spec == Init /\ [][Next]_vars

\* The facade's authenticate.
Authenticate ==
    /\ \E apikey \in ApiKeys, password \in Passwords :
          LET res == authenticate(ctor.version, auth, apikey, password)
          IN  /\ auth' = res.auth
              /\ call' = [NoCall EXCEPT !.op = "authenticate", !.ok = res.r.ok,
                                        !.err = res.r.err, !.msg = res.msg,
                                        !.credentials = <<apikey, password>>]
    /\ fetched' = NoFetch
    /\ UNCHANGED <<ctor, data_store, fs, s3, ncalls>>

\* A client built by MySportsFeeds(version, verbose, data_store, store_type):
\* the API class gets the validated data_store and no store_type.
InitAuth ==
    /\ ctor \in FacadeCtors
    /\ data_store = init_data_store(
                        validate_data_store(ctor.data_store, ctor.store_type).val, "None")
    /\ auth = Unbound
    /\ fs = NewFileStore
    /\ s3 = NewS3Store(NoPrefix)
    /\ call = NoCall
    /\ fetched = NoFetch
    /\ ncalls = 0

NextAuth == Authenticate

SpecAuth == InitAuth /\ [][NextAuth]_vars

\* The two storage backends used directly: one FileStore handle and one
\* S3Store handle, with or without a key prefix.
InitStores ==
    /\ ctor = [version |-> "1.0", data_store |-> "None", store_type |-> "None"]
    /\ data_store = init_data_store(ctor.data_store, ctor.store_type)
    /\ auth = Unbound
    /\ fs = NewFileStore
    /\ s3 \in {NewS3Store(prefix) : prefix \in Prefixes}
    /\ call = NoCall
    /\ fetched = NoFetch
    /\ ncalls = 0

NextStores == StoreOp \/ LoadOp \/ ExistsOp \/ S3StoreOp \/ S3LoadOp \/ S3ExistsOp

SpecStores == InitStores /\ [][NextStores]_vars

\* determine_url applied to a request, on a client of each version.
UrlOp ==
    /\ \E rq \in UrlRequests :
          call' = [NoCall EXCEPT !.op = "determine_url", !.req = rq,
                                 !.url = determine_url(base_url(ctor.version), rq.league,
                                                       rq.season, rq.feed, rq.format,
                                                       rq.params)]
    /\ UNCHANGED <<ctor, data_store, auth, fs, s3, ncalls, fetched>>

NextUrl == UrlOp

SpecUrl == Init /\ [][NextUrl]_vars

\* The cache key resolver alone, over a wider set of requests.
NextResolve == ResolveOp

SpecResolve == Init /\ [][NextResolve]_vars

-----------------------------------------------------------------------------
(* The claims *)

IsGetData == call.op = "get_data"

\* The client was constructed with a storage backend: a data_store object,
\* or the legacy store_type "file".
ConstructedWithStore == ctor.data_store # "None" \/ ctor.store_type = "file"

ValidRequest(kw) == kw.feed \in valid_feeds /\ kw.format \in {"json", "xml", "csv"}

\* The backend calls a caller makes for the request kw, with the parameters
\* get_data passes on.
KeyOf(kw) == resolve_filename(kw.league, kw.season, kw.feed, kw.format, request_params(kw))

ExistsTrue(store, kw) ==
    FileStore_exists(store, kw.league, kw.season, kw.feed, kw.format,
                     request_params(kw)).r = Ok(PyBool(TRUE))

LoadOf(store, kw) ==
    FileStore_load(store, kw.league, kw.season, kw.feed, kw.format, request_params(kw)).r

\* C1: for a client constructed with a storage backend, once get_data is over
\* on a 200 response for a valid request (a decodable body, a key that
\* resolves, no filesystem fault), it has returned and backend.exists(...) for
\* the same request is true.
C1_ExistsAfter200 ==
    (/\ IsGetData /\ ConstructedWithStore /\ call.status = 200
     /\ ValidRequest(call.req) /\ KeyOf(call.req).ok
     /\ _load_data(call.req.format, call.body).ok /\ call.fault = "none")
    => (call.ok /\ ExistsTrue(fs, call.req))

\* C2: a get_data call that gets a 304 response, on a client constructed with
\* a backend that holds a loadable entry under the request's key, returns the
\* backend's load result and leaves the files as they were.
C2_CachedOn304 ==
    [][(/\ call'.op = "get_data" /\ ncalls' = ncalls + 1 /\ call'.status = 304
        /\ ConstructedWithStore /\ ExistsTrue(fs, call'.req)
        /\ LoadOf(fs, call'.req).ok)
       => (/\ call'.ok
           /\ call'.data = LoadOf(fs, call'.req).val
           /\ fs'.files = fs.files)]_vars

\* C3: a get_data call that gets a 304 response when no cached copy is
\* available (no backend configured, or exists false for the key) does not
\* raise and returns the explicit "no data" value None.
C3_NoDataOn304 ==
    (/\ IsGetData /\ call.status = 304 /\ KeyOf(call.req).ok
     /\ (~ConstructedWithStore \/ ~ExistsTrue(fs, call.req)))
    => (call.ok /\ call.data = PyNone)

\* C4: on an authenticated client, get_data for a request that names a feed
\* outside valid_feeds, or a format outside {json, xml, csv}, raises the
\* validation error (ValueError) having issued no HTTP GET and made no
\* data-store operation.
C4_ValidationBeforeRequest ==
    (/\ IsGetData /\ auth # Unbound /\ call.req.feed # Absent
     /\ ~ValidRequest(call.req))
    => (~call.ok /\ call.err = "ValueError" /\ call.gets = 0 /\ call.ops = 0)

C4_Witness ==
    /\ IsGetData /\ auth # Unbound /\ call.req.feed = "players"
    /\ call.req.format = "json" /\ call.err = "ValueError" /\ call.gets = 0

\* C5: while set_auth_credentials has not been called, get_data raises the
\* "not authenticated" error with its message and issues no HTTP GET.
C5_NotAuthenticated ==
    (IsGetData /\ auth = Unbound)
    => (/\ ~call.ok /\ call.err = "AssertionError" /\ call.msg = NotAuthenticated
        /\ call.gets = 0)

\* C6: a get_data call whose response has a status other than 200 and 304
\* raises the transport error (Warning) carrying that status, after exactly
\* one HTTP GET and no data-store operation.
C6_OtherStatusFails ==
    (IsGetData /\ call.gets > 0 /\ call.status \notin {200, 304})
    => (/\ ~call.ok /\ call.err = "Warning" /\ call.err_status = call.status
        /\ call.gets = 1 /\ call.ops = 0)

C6_Witness ==
    /\ IsGetData /\ call.status = 404 /\ call.err = "Warning"
    /\ call.err_status = 404 /\ call.gets = 1

\* C7: the payload get_data returns on a 200 response is the body decoded per
\* the format, and it is the value handed to the backend's store.
C7_ReturnsDecodedBody ==
    (IsGetData /\ call.status = 200 /\ call.ok)
    => (/\ call.data = _load_data(call.req.format, call.body).val
        /\ (call.ops > 0 => call.stored = call.data))

\* C8 as stated: on a 200 response, a failure of the backend's store does not
\* abort the call, which still returns the fresh decoded payload.
C8_StoreFailureIgnored ==
    (IsGetData /\ call.status = 200 /\ call.store_err # "")
    => (call.ok /\ call.data = decode_response(call.req.format, call.body).val)

\* C8 as amended: on a 200 response, a failure of the FileStore's store aborts
\* the call: get_data raises what store raised and returns no payload.
C8_StoreFailurePropagates ==
    (IsGetData /\ call.status = 200 /\ call.store_err # "")
    => (~call.ok /\ call.err = call.store_err /\ call.data = Unbound)

C8_Witness ==
    /\ IsGetData /\ call.status = 200 /\ call.fault = "write"
    /\ call.store_err = "OSError" /\ ~call.ok

\* The file name C9 describes: "-{gameid}" if there is a game id, else
\* "-{fordate}" if there is a for-date, never both.
ClaimedName(rq) ==
    rq.feed \o "-" \o lower(rq.league) \o "-" \o rq.season
      \o (IF "gameid" \in DOMAIN rq.params THEN "-" \o rq.params["gameid"]
          ELSE IF "fordate" \in DOMAIN rq.params THEN "-" \o rq.params["fordate"]
          ELSE "")
      \o "." \o rq.format

\* C9: resolve_filename returns, without error, the name
\* "{feed}-{lowercased league}-{season}[-{gameid} | -{fordate}].{format}" for
\* every request, whatever other keys params holds.
C9_ResolvesAsDescribed ==
    call.op = "resolve_filename" => (call.ok /\ call.filename = ClaimedName(call.req))

Opt(params, k) == IF k \in DOMAIN params THEN <<params[k]>> ELSE <<>>

KeyFields(rq) ==
    <<rq.feed, rq.league, rq.season, rq.format, Opt(rq.params, "gameid"),
      Opt(rq.params, "fordate")>>

\* C10: every request that agrees with the one just resolved on feed, league,
\* season, game id, for-date and format resolves to the same outcome,
\* whatever other parameters either carries.
C10_KeyDependsOnKeyFields ==
    call.op = "resolve_filename" =>
        \A rq \in ResolveRequests :
            KeyFields(rq) = KeyFields(call.req) =>
                resolve_filename(rq.league, rq.season, rq.feed, rq.format, rq.params)
                    = [ok |-> call.ok, val |-> call.filename, err |-> call.err]

FsOps == {"store", "load", "exists"}
S3Ops == {"s3_store", "s3_load", "s3_exists"}

\* The key the S3Store handle gives the request rq.
S3KeyOf(rq) == _get_object_key(s3.prefix, rq.league, rq.season, rq.feed, rq.format, rq.params)

C12_S3ErrorsSwallowed ==
    [][(s3.init /\ call'.op \in S3Ops /\ ncalls' = ncalls + 1 /\ S3KeyOf(call'.req).ok
        /\ (call'.fault # "none"
             \/ (call'.op # "s3_store" /\ S3KeyOf(call'.req).val \notin DOMAIN s3.objects)))
       => (/\ call'.ok
           /\ call'.op = "s3_exists" => call'.data = PyBool(FALSE)
           /\ call'.op = "s3_load" => call'.data = PyNone
           /\ call'.op = "s3_store" => (call'.data = PyNone /\ s3' = s3))]_vars

C12_Witness ==
    /\ call.op = "s3_exists" /\ call.fault = "500" /\ ~call.bucket_fault
    /\ ncalls = 2 /\ s3.bucket_loads = 1 /\ S3KeyOf(call.req).val \in DOMAIN s3.objects
    /\ call.ok /\ call.data = PyBool(FALSE)

\* C13: load on either backend (initialization and request succeeding)
\* returns the decoded stored payload when the backend holds an entry under
\* the request's key, and None, not an error, when it holds none.
C13_LoadReturnsEntry ==
    /\ (call.op = "load" /\ KeyOf(call.req).ok) =>
          LET key == resolve_filename(call.req.league, call.req.season, call.req.feed,
                                      call.req.format, call.req.params).val
          IN  /\ call.ok
              /\ call.data = IF key \in DOMAIN fs.files
                              THEN _load_data(call.req.format,
                                              TranslateNewlines(fs.files[key])).val
                              ELSE PyNone
    /\ (call.op = "s3_load" /\ ~call.bucket_fault /\ call.fault = "none"
         /\ S3KeyOf(call.req).ok) =>
          LET key == S3KeyOf(call.req).val
          IN  /\ call.ok
              /\ call.data = IF key \in DOMAIN s3.objects
                              THEN _load_data(call.req.format, s3.objects[key]).val
                              ELSE PyNone

\* C14: on the FileStore, for the json and xml formats, a load that follows
\* a store of the payload x for the same request returns x.
C14_RoundTrip ==
    [][(/\ call.op = "store" /\ call.ok /\ call.req.format \in {"json", "xml"}
        /\ call'.op = "load" /\ ncalls' = ncalls + 1 /\ call'.req = call.req)
       => (call'.ok /\ call'.data = call.stored)]_vars

\* C15: authenticate on a client whose version does not support basic
\* authentication raises the error saying so and changes no state: the
\* credentials (and with them the Authorization header) stay unset.
C15_NoBasicAuthNoState ==
    [][(call'.op = "authenticate" /\ ~supports_basic_auth(ctor.version))
       => (/\ ~call'.ok /\ call'.err = "ValueError"
           /\ call'.msg = BasicAuthNotSupported \o ctor.version
           /\ auth' = Unbound
           /\ UNCHANGED <<ctor, data_store, auth, fs, s3>>)]_vars

C15_Witness ==
    /\ call.op = "authenticate" /\ ctor.version = "2.0" /\ ~call.ok /\ auth = Unbound

\* The URL C16 describes for a client of the given version.
ClaimedUrl(version, rq) ==
    LET base == "https://api.mysportsfeeds.com/v" \o version \o "/pull"
    IN  IF rq.feed = "current_season"
        THEN base \o "/" \o rq.league \o "/" \o rq.feed \o "." \o rq.format
        ELSE base \o "/" \o rq.league \o "/" \o rq.season \o "/" \o rq.feed
                  \o "." \o rq.format

\* C16: determine_url returns "{base}/{league}/{feed}.{format}" for the feed
\* current_season and "{base}/{league}/{season}/{feed}.{format}" for every
\* other feed, {base} being the base URL of the client's own version.
C16_UrlTemplate ==
    call.op = "determine_url" => call.url = ClaimedUrl(ctor.version, call.req)

C16_Witness ==
    /\ call.op = "determine_url" /\ ctor.version = "1.1"
    /\ call.req.feed = "current_season" /\ call.req.season = "2016"
    /\ call.url = "https://api.mysportsfeeds.com/v1.1/pull/nba/current_season.json"

\* What load returns for the request kw from a FileStore that holds nothing
\* but the payload data stored for kw.
LoadOfAlone(data, kw) ==
    LoadOf(FileStore_store(NewFileStore, data, kw.league, kw.season, kw.feed, kw.format,
                           request_params(kw), "none").fs, kw)

\* C17: when a get_data call that got a 200 response and stored its payload
\* is followed by another such call whose request resolves to the same key,
\* load for that key returns the stored payload of the second call (what the
\* backend holds of that payload alone; for json the payload itself) and
\* nothing of the first.
C17_OverwrittenByNextFetch ==
    [][(/\ call.op = "get_data" /\ call.status = 200 /\ call.ok /\ call.ops = 1
        /\ call'.op = "get_data" /\ ncalls' = ncalls + 1
        /\ call'.status = 200 /\ call'.ok /\ call'.ops = 1
        /\ KeyOf(call'.req) = KeyOf(call.req))
       => (/\ LoadOf(fs', call'.req) = LoadOfAlone(call'.stored, call'.req)
           /\ call'.req.format = "json" => LoadOf(fs', call'.req) = Ok(call'.stored)
           /\ fs'.files[KeyOf(call'.req).val]
                = _write_data(call'.stored, call'.req.format).val)]_vars

C17_Witness ==
    /\ IsGetData /\ fetched.streak = 2 /\ call.req.format = "xml"
    /\ fetched.replaced = PyStr(BodyRows) /\ call.stored = PyStr(BodyJson)
    /\ LoadOf(fs, call.req) = Ok(PyStr(BodyJson))

\* C18: the query parameters of the HTTP GET carry force=false exactly when
\* the caller passed no force parameter; a force the caller passed is sent
\* as passed.
C18_ForceDefault ==
    (IsGetData /\ call.gets = 1)
    => (/\ "force" \in DOMAIN call.query
        /\ call.query["force"] = IF "force" \in DOMAIN call.req.params
                                  THEN call.req.params["force"] ELSE "false")

C18_Witness ==
    /\ IsGetData /\ call.gets = 1 /\ call.req.params = ("force" :> "true")
    /\ call.query["force"] = "true"

\* C19: an authenticated get_data for the feed 'players' with a season and a
\* recognized format sends the request, with the season among the query
\* parameters and not in the URL path.
C19_PlayersSeasonRouted ==
    (/\ IsGetData /\ auth # Unbound /\ call.req.feed = "players"
     /\ call.req.format \in {"json", "xml", "csv"})
    => (/\ call.gets = 1
        /\ "season" \in DOMAIN call.query /\ call.query["season"] = call.req.season
        /\ call.url = determine_url(base_url(ctor.version), call.req.league, "",
                                    "players", call.req.format, call.query))

\* C20: on a client constructed with a backend, when a get_data call that
\* returned the payload P on a 200 response is followed by a call for the
\* same request that gets a 304 response, the second call returns P.
C20_CachedEqualsFresh ==
    [][(/\ call.op = "get_data" /\ call.status = 200 /\ call.ok /\ ConstructedWithStore
        /\ call'.op = "get_data" /\ ncalls' = ncalls + 1
        /\ call'.status = 304 /\ call'.req = call.req)
       => (call'.ok /\ call'.data = call.data)]_vars
====
